---- MODULE Spec2Model ----
(***************************************************************************)
(* Enaml's dynamic scope: DynamicScope (the tiered scope resolver) and     *)
(* Nonlocals (the level-indexed accessor) of enaml/core/dynamic_scope.py,  *)
(* over a chain of owner objects linked by their parent references.        *)
(*                                                                         *)
(* A mapping (dict) is a function whose DOMAIN is the set of bound names;  *)
(* an owner's attribute surface is such a mapping per node, getattr        *)
(* raising AttributeError for a name outside its domain.                   *)
(***************************************************************************)
EXTENDS Integers, Sequences, FiniteSets, TLC

\* Number of owner objects in the parent chain 1 -> 2 -> ... -> NumNodes.
NumNodes == 2

\* Python's None, as a parent, an owner or a returned value.
None == 0

Nodes == 1..NumNodes

\* The names an expression reads and writes.
Names == {"x", "y"}

\* Values written through __setitem__ (distinct from every initial value).
WriteVals == {1, 2}

\* The listener a scope is constructed with, or no listener (None).
NoListener == "None"
Listeners == {NoListener, "listener"}

\* The initial value each source holds for a name it binds.
TierVal == [identifiers |-> 10, f_globals |-> 20, builtins |-> 30]
NodeVal(n) == 40 + n

\* The levels handed to Nonlocals.__call__, from a negative one to one past
\* the level that walks off the root.
Levels == (0 - 1)..(NumNodes + 1)

VARIABLES
    overrides,      \* DynamicScope._overrides
    identifiers,    \* DynamicScope._identifiers
    f_globals,      \* DynamicScope._f_globals, without its '__builtins__' key
    builtins,       \* DynamicScope._f_globals['__builtins__']
    parent,         \* node -> its parent node, or None
    attrs,          \* node -> mapping of the attributes getattr finds
    settable,       \* node -> names for which setattr succeeds
    scope,          \* the DynamicScope object: [obj, listener]
    nls,            \* live Nonlocals objects: id -> [obj, listener]
    last,           \* the last completed operation and its outcome
    manifests,      \* Workbench._manifests: plugin id -> manifest
    plugins,        \* Workbench._plugins: plugin id -> plugin object, or None
    registry,       \* Workbench._registry: what it holds
    instances,      \* the Plugin objects created so far
    wlast,          \* the last completed Workbench call and its outcome
    stack,          \* the calls in progress, innermost last
    ret,            \* the outcome of the call that returned last
    kind            \* node -> what reading its attribute does

vars == <<overrides, identifiers, f_globals, builtins, parent, attrs,
          settable, scope, nls, last,
          manifests, plugins, registry, instances, wlast,
          stack, ret, kind>>

tiers == <<identifiers, f_globals, builtins>>
chain == <<parent, attrs, settable>>
wb == <<manifests, plugins, registry, instances, wlast>>
run == <<stack, ret, kind>>

----------------------------------------------------------------------------
\* Outcomes of a call: a returned value with the listener calls it made, or
\* a raised exception.

Ret(v, calls) == [exc |-> "", value |-> v, calls |-> calls]
Raise(e) == [exc |-> e, value |-> None, calls |-> <<>>]

\* listener.dynamic_load(obj, name, value), guarded by `listener is not None`.
Notify(listener, node, name, value) ==
    IF listener # NoListener THEN << <<node, name, value>> >> ELSE << >>

\* The mapping `dct` after dct[name] = value.
Bind(dct, name, value) ==
    [n \in (DOMAIN dct) \cup {name} |-> IF n = name THEN value ELSE dct[n]]

\* A key handed to __contains__: a string name, or an object that is not a
\* basestring (which may still be a key of a mapping).
Keys == [isstr : BOOLEAN, name : Names]
Str(name) == [isstr |-> TRUE, name |-> name]

NoKey == [isstr |-> FALSE, name |-> ""]

\* A level handed to __call__: an int, or an object that is not an int.
NoLevel == [isint |-> FALSE, n |-> None]
LevelArgs == [isint : {TRUE}, n : Levels] \cup {NoLevel}

\* The record of a completed operation: the object it ran on (0: the scope,
\* else the id of a Nonlocals object), its arguments and its outcome.
Outcome(op, self, key, arg, r, truth, created) ==
    [op |-> op, self |-> self, key |-> key, arg |-> arg, level |-> NoLevel,
     exc |-> r.exc, value |-> r.value, calls |-> r.calls, truth |-> truth,
     created |-> created]

----------------------------------------------------------------------------
\* DynamicScope

\* Mutant: a walk that leaves the root returns None instead of raising.
RECURSIVE DynamicScope_walk_default(_, _, _)
DynamicScope_walk_default(node, name, listener) ==
    IF node = None THEN Ret(None, << >>)
    ELSE IF name \in DOMAIN attrs[node]
         THEN Ret(attrs[node][name],
                  Notify(listener, node, name, attrs[node][name]))
         ELSE DynamicScope_walk_default(parent[node], name, listener)

\* Mutant: the listener is told the scope's owner, not the node found.
RECURSIVE DynamicScope_walk_owner(_, _, _)
DynamicScope_walk_owner(node, name, listener) ==
    IF node = None THEN Raise("KeyError")
    ELSE IF name \in DOMAIN attrs[node]
         THEN Ret(attrs[node][name],
                  Notify(listener, scope.obj, name, attrs[node][name]))
         ELSE DynamicScope_walk_owner(parent[node], name, listener)

\* The hierarchy walk of DynamicScope.__getitem__: getattr on the node, on
\* AttributeError move to its parent, on success notify and return.
RECURSIVE DynamicScope_walk(_, _, _)
DynamicScope_walk(node, name, listener) ==
    IF node = None THEN Raise("KeyError")
    ELSE IF name \in DOMAIN attrs[node]
         THEN Ret(attrs[node][name],
                  Notify(listener, node, name, attrs[node][name]))
         ELSE DynamicScope_walk(parent[node], name, listener)

\* Mutant: identifiers are consulted before overrides.
DynamicScope_getitem_idfirst(self, name) ==
    IF name \in DOMAIN identifiers THEN Ret(identifiers[name], << >>)
    ELSE IF name \in DOMAIN overrides THEN Ret(overrides[name], << >>)
    ELSE IF name \in DOMAIN f_globals THEN Ret(f_globals[name], << >>)
    ELSE IF name \in DOMAIN builtins THEN Ret(builtins[name], << >>)
    ELSE DynamicScope_walk(self.obj, name, self.listener)

\* DynamicScope.__getitem__ on the scope object `self`.
DynamicScope_getitem(self, name) ==
    IF name \in DOMAIN overrides THEN Ret(overrides[name], << >>)
    ELSE IF name \in DOMAIN identifiers THEN Ret(identifiers[name], << >>)
    ELSE IF name \in DOMAIN f_globals THEN Ret(f_globals[name], << >>)
    ELSE IF name \in DOMAIN builtins THEN Ret(builtins[name], << >>)
    ELSE DynamicScope_walk(self.obj, name, self.listener)

\* Mutant: the overrides are replaced by the one new entry.
DynamicScope_setitem_only(name, value) == [n \in {name} |-> value]

\* Mutant: an existing override is kept (setdefault).
DynamicScope_setitem_default(name, value) ==
    IF name \in DOMAIN overrides THEN overrides
    ELSE Bind(overrides, name, value)

\* DynamicScope.__setitem__: the overrides mapping after the call.
DynamicScope_setitem(name, value) == Bind(overrides, name, value)

\* Mutant: the lookup runs with the listener in place.
DynamicScope_contains_loud(self, key) ==
    IF key.isstr
    THEN LET r == DynamicScope_getitem(self, key.name)
         IN  [res |-> r.exc # "KeyError", calls |-> r.calls, self |-> self]
    ELSE [res |-> FALSE, calls |-> << >>, self |-> self]

\* DynamicScope.__contains__: the lookup runs on the object with its
\* listener set to None; the finally clause puts the listener back.
DynamicScope_contains(self, key) ==
    IF key.isstr
    THEN LET testing == [self EXCEPT !.listener = NoListener]
             r == DynamicScope_getitem(testing, key.name)
         IN  [res |-> r.exc # "KeyError", calls |-> r.calls,
              self |-> [testing EXCEPT !.listener = self.listener]]
    ELSE [res |-> FALSE, calls |-> << >>, self |-> self]

GetItem(name) ==
    /\ last' = Outcome("getitem", 0, Str(name), None,
                       DynamicScope_getitem(scope, name), FALSE, 0)
    /\ UNCHANGED <<overrides, tiers, chain, scope, nls>>
    /\ UNCHANGED <<wb, run>>

SetItem(name, value) ==
    /\ overrides' = DynamicScope_setitem(name, value)
    /\ last' = Outcome("setitem", 0, Str(name), value, Ret(None, << >>),
                       FALSE, 0)
    /\ UNCHANGED <<tiers, chain, scope, nls>>
    /\ UNCHANGED <<wb, run>>

Contains(key) ==
    LET c == DynamicScope_contains(scope, key)
    IN  /\ scope' = c.self
        /\ last' = Outcome("contains", 0, key, None, Ret(None, c.calls),
                           c.res, 0)
        /\ UNCHANGED <<overrides, tiers, chain, nls>>
        /\ UNCHANGED <<wb, run>>

----------------------------------------------------------------------------
\* Nonlocals

\* Mutant: an ancestor exposing the name wins over a nearer node.
RECURSIVE Nonlocals_walk_far(_, _, _)
Nonlocals_walk_far(node, name, listener) ==
    IF node = None THEN Raise("KeyError")
    ELSE LET up == Nonlocals_walk_far(parent[node], name, listener)
         IN  IF up.exc = "" THEN up
             ELSE IF name \in DOMAIN attrs[node]
                  THEN Ret(attrs[node][name],
                           Notify(listener, node, name, attrs[node][name]))
                  ELSE up

\* The walk of Nonlocals.__getitem__ from the node `node`.
RECURSIVE Nonlocals_walk(_, _, _)
Nonlocals_walk(node, name, listener) ==
    IF node = None THEN Raise("KeyError")
    ELSE IF name \in DOMAIN attrs[node]
         THEN Ret(attrs[node][name],
                  Notify(listener, node, name, attrs[node][name]))
         ELSE Nonlocals_walk(parent[node], name, listener)

\* Mutant: the overrides of the scope are consulted before the chain.
Nonlocals_getitem_scoped(self, name) ==
    IF name \in DOMAIN overrides THEN Ret(overrides[name], << >>)
    ELSE Nonlocals_walk(self.obj, name, self.listener)

\* Nonlocals.__getitem__ on the accessor object `self`.
Nonlocals_getitem(self, name) ==
    Nonlocals_walk(self.obj, name, self.listener)

\* Nonlocals.__getattr__, reached for a name that is no field of the
\* accessor: __getitem__ with KeyError turned into AttributeError.
Nonlocals_getattr(self, name) ==
    LET r == Nonlocals_getitem(self, name)
    IN  IF r.exc = "KeyError" THEN Raise("AttributeError") ELSE r

\* Mutant: the key is looked up whatever its type.
Nonlocals_contains_anykey(self, key) ==
    LET testing == [self EXCEPT !.listener = NoListener]
        r == Nonlocals_getitem(testing, key.name)
    IN  [res |-> r.exc # "KeyError", calls |-> r.calls,
         self |-> [testing EXCEPT !.listener = self.listener]]

\* Nonlocals.__contains__.
Nonlocals_contains(self, key) ==
    IF key.isstr
    THEN LET testing == [self EXCEPT !.listener = NoListener]
             r == Nonlocals_getitem(testing, key.name)
         IN  [res |-> r.exc # "KeyError", calls |-> r.calls,
              self |-> [testing EXCEPT !.listener = self.listener]]
    ELSE [res |-> FALSE, calls |-> << >>, self |-> self]

\* Mutant: the write goes to the farthest accepting node.
RECURSIVE Nonlocals_setwalk_far(_, _, _)
Nonlocals_setwalk_far(node, name, value) ==
    IF node = None THEN [exc |-> "KeyError", attrs |-> attrs]
    ELSE LET up == Nonlocals_setwalk_far(parent[node], name, value)
         IN  IF up.exc = "" THEN up
             ELSE IF name \in settable[node]
                  THEN [exc |-> "",
                        attrs |-> [attrs EXCEPT
                                     ![node] = Bind(attrs[node], name, value)]]
                  ELSE up

\* Mutant: the loop ends at the root without raising.
RECURSIVE Nonlocals_setwalk_quiet(_, _, _)
Nonlocals_setwalk_quiet(node, name, value) ==
    IF node = None THEN [exc |-> "", attrs |-> attrs]
    ELSE IF name \in settable[node]
         THEN [exc |-> "",
               attrs |-> [attrs EXCEPT ![node] = Bind(attrs[node], name, value)]]
         ELSE Nonlocals_setwalk_quiet(parent[node], name, value)

\* The walk of Nonlocals.__setitem__ from the node `node`: setattr on the
\* node, on AttributeError move to its parent, on success return.  The
\* outcome carries the attributes of all nodes after the call.
RECURSIVE Nonlocals_setwalk(_, _, _)
Nonlocals_setwalk(node, name, value) ==
    IF node = None THEN [exc |-> "KeyError", attrs |-> attrs]
    ELSE IF name \in settable[node]
         THEN [exc |-> "",
               attrs |-> [attrs EXCEPT ![node] = Bind(attrs[node], name, value)]]
         ELSE Nonlocals_setwalk(parent[node], name, value)

\* Nonlocals.__setitem__ on the accessor object `self`.
Nonlocals_setitem(self, name, value) ==
    Nonlocals_setwalk(self.obj, name, value)

\* Nonlocals.__setattr__ for a name other than the accessor's own fields
\* _nls_obj and _nls_listener: __setitem__ with KeyError turned into
\* AttributeError.
Nonlocals_setattr(self, name, value) ==
    LET r == Nonlocals_setitem(self, name, value)
    IN  IF r.exc = "KeyError" THEN [r EXCEPT !.exc = "AttributeError"] ELSE r

\* The loop of Nonlocals.__call__: follow parent while the target is not
\* None and the offset has not reached the level.
RECURSIVE Nonlocals_hops(_, _, _)
Nonlocals_hops(target, offset, level) ==
    IF target # None /\ offset # level
    THEN Nonlocals_hops(parent[target], offset + 1, level)
    ELSE [target |-> target, offset |-> offset]

\* Mutant: the new object is built without the listener.
Nonlocals_call_nolistener(self, level) ==
    IF ~level.isint \/ level.n < 0 THEN [exc |-> "ValueError", new |-> self]
    ELSE LET h == Nonlocals_hops(self.obj, 0, level.n)
         IN  IF h.offset # level.n THEN [exc |-> "ValueError", new |-> self]
             ELSE [exc |-> "",
                   new |-> [obj |-> h.target, listener |-> NoListener]]

\* Nonlocals.__call__ on the accessor object `self`: ValueError, or the
\* fields of the new Nonlocals object.
Nonlocals_call(self, level) ==
    IF ~level.isint \/ level.n < 0 THEN [exc |-> "ValueError", new |-> self]
    ELSE LET h == Nonlocals_hops(self.obj, 0, level.n)
         IN  IF h.offset # level.n THEN [exc |-> "ValueError", new |-> self]
             ELSE [exc |-> "",
                   new |-> [obj |-> h.target, listener |-> self.listener]]

\* The id of a newly allocated object: the smallest one not held by the
\* original accessor (id 1) or by the accessor being called.
NewId(i) == IF i = 2 THEN 3 ELSE 2

NlGetItem(i, name) ==
    /\ i \in DOMAIN nls
    /\ last' = Outcome("nl_getitem", i, Str(name), None,
                       Nonlocals_getitem(nls[i], name), FALSE, 0)
    /\ UNCHANGED <<overrides, tiers, chain, scope, nls>>
    /\ UNCHANGED <<wb, run>>

NlGetAttr(i, name) ==
    /\ i \in DOMAIN nls
    /\ last' = Outcome("nl_getattr", i, Str(name), None,
                       Nonlocals_getattr(nls[i], name), FALSE, 0)
    /\ UNCHANGED <<overrides, tiers, chain, scope, nls>>
    /\ UNCHANGED <<wb, run>>

NlContains(i, key) ==
    /\ i \in DOMAIN nls
    /\ LET c == Nonlocals_contains(nls[i], key)
       IN  /\ nls' = [nls EXCEPT ![i] = c.self]
           /\ last' = Outcome("nl_contains", i, key, None,
                              Ret(None, c.calls), c.res, 0)
    /\ UNCHANGED <<overrides, tiers, chain, scope>>
    /\ UNCHANGED <<wb, run>>

NlSetItem(i, name, value) ==
    /\ i \in DOMAIN nls
    /\ LET r == Nonlocals_setitem(nls[i], name, value)
       IN  /\ attrs' = r.attrs
           /\ last' = Outcome("nl_setitem", i, Str(name), value,
                              [Ret(None, << >>) EXCEPT !.exc = r.exc], FALSE, 0)
    /\ UNCHANGED <<overrides, tiers, parent, settable, scope, nls>>
    /\ UNCHANGED <<wb, run>>

NlSetAttr(i, name, value) ==
    /\ i \in DOMAIN nls
    /\ LET r == Nonlocals_setattr(nls[i], name, value)
       IN  /\ attrs' = r.attrs
           /\ last' = Outcome("nl_setattr", i, Str(name), value,
                              [Ret(None, << >>) EXCEPT !.exc = r.exc], FALSE, 0)
    /\ UNCHANGED <<overrides, tiers, parent, settable, scope, nls>>
    /\ UNCHANGED <<wb, run>>

\* __call__: the new object stays alive next to the original accessor and
\* the accessor it was called on; other derived accessors are dropped.
NlCall(i, level) ==
    /\ i \in DOMAIN nls
    /\ LET r == Nonlocals_call(nls[i], level)
           j == NewId(i)
       IN  IF r.exc # ""
           THEN /\ nls' = nls
                /\ last' = [Outcome("nl_call", i, NoKey, None, Raise(r.exc),
                                    FALSE, 0) EXCEPT !.level = level]
           ELSE /\ nls' = [k \in {1, i, j} |-> IF k = j THEN r.new ELSE nls[k]]
                /\ last' = [Outcome("nl_call", i, NoKey, None,
                                    Ret(None, << >>), FALSE, j)
                               EXCEPT !.level = level]
    /\ UNCHANGED <<overrides, tiers, chain, scope>>
    /\ UNCHANGED <<wb, run>>

----------------------------------------------------------------------------
\* Initial states.  Every mapping binds exactly one of the two names, so
\* each name meets every combination of sources binding it or not.

----------------------------------------------------------------------------
\* Workbench

\* Plugin objects the model lets _create_plugin build.
MaxInst == 2

PluginIds == {"p", "q"}

\* manifest.cls: empty (the Plugin class is used), the path of a Plugin
\* subclass, a path that cannot be imported, the path of a class that is
\* not a Plugin.
ClsPaths == {"", "pkg.APlugin", "pkg.missing", "pkg.NotAPlugin"}

\* The manifests create_manifest(data) builds: for each plugin id two
\* documents, each declaring its own extension point and extension.
Manifests == [id : PluginIds, doc : 1..2, cls : ClsPaths]

\* None where a manifest is expected.
NoManifest == [id |-> "", doc |-> 0, cls |-> ""]

extension_points(manifest) == {[plugin_id |-> manifest.id, id |-> manifest.doc]}
extensions(manifest) == {[plugin_id |-> manifest.id, id |-> manifest.doc]}

\* The registry holds the items added to it and not removed since; adding
\* an item it holds already changes nothing.
ExtensionRegistry_add(reg, points, exts) ==
    [extension_points |-> reg.extension_points \cup points,
     extensions |-> reg.extensions \cup exts]

ExtensionRegistry_remove(reg, points, exts) ==
    [extension_points |-> reg.extension_points \ points,
     extensions |-> reg.extensions \ exts]

\* dct.pop(key, None): the mapping without the key.
Pop(dct, key) == [k \in (DOMAIN dct) \ {key} |-> dct[k]]

\* dct.get(key): the value, or None.
Get(dct, key, none) == IF key \in DOMAIN dct THEN dct[key] ELSE none

\* The record of a completed Workbench call.
WbOutcome(op, id, plugin, manifest, warned) ==
    [op |-> op, id |-> id, plugin |-> plugin, manifest |-> manifest,
     warned |-> warned, force |-> FALSE]

NoWbOp == WbOutcome("init", "", None, NoManifest, FALSE)

\* Workbench._create_plugin: TRUE when a Plugin object results, FALSE when
\* it warns and returns None.
Workbench_create_plugin(manifest) ==
    IF manifest.cls = "" THEN TRUE
    ELSE IF manifest.cls = "pkg.missing" THEN FALSE
    ELSE IF manifest.cls = "pkg.NotAPlugin" THEN FALSE
    ELSE TRUE

\* Mutant: a duplicate manifest replaces the stored one.
Workbench_store_replace(manifest) ==
    Bind(manifests, manifest.id, manifest)

\* The manifest map after register(data).
Workbench_store(manifest) ==
    IF manifest.id \in DOMAIN manifests THEN manifests
    ELSE Bind(manifests, manifest.id, manifest)

\* Workbench.register.
Register(manifest) ==
    /\ manifests' = Workbench_store(manifest)
    /\ registry' = ExtensionRegistry_add(registry,
                        extension_points(manifest), extensions(manifest))
    /\ wlast' = WbOutcome("register", manifest.id, None, manifest,
                          manifest.id \in DOMAIN manifests)
    /\ UNCHANGED <<plugins, instances>>
    /\ UNCHANGED <<overrides, tiers, chain, scope, nls, last, run>>

\* Mutant: the plugin is dropped without being stopped.
Workbench_stop_never(plugin) == instances

\* The Plugin objects after unregister has popped `plugin`.
Workbench_stop(plugin) ==
    IF plugin # None
    THEN [instances EXCEPT ![plugin] =
             [@ EXCEPT !.stopped = @ + 1, !.workbench = "None",
                       !.manifest = NoManifest]]
    ELSE instances

\* Workbench.unregister.
Unregister(plugin_id) ==
    /\ IF plugin_id \notin DOMAIN manifests
       THEN /\ wlast' = WbOutcome("unregister", plugin_id, None, NoManifest,
                                  TRUE)
            /\ UNCHANGED <<manifests, plugins, registry, instances>>
       ELSE LET manifest == manifests[plugin_id]
                plugin == Get(plugins, plugin_id, None)
            IN  /\ manifests' = Pop(manifests, plugin_id)
                /\ plugins' = Pop(plugins, plugin_id)
                /\ instances' = Workbench_stop(plugin)
                /\ registry' = ExtensionRegistry_remove(registry,
                                   extension_points(manifest),
                                   extensions(manifest))
                /\ wlast' = WbOutcome("unregister", plugin_id, plugin,
                                      manifest, FALSE)
    /\ UNCHANGED <<overrides, tiers, chain, scope, nls, last, run>>

\* Workbench.get_manifest.
GetManifest(plugin_id) ==
    /\ wlast' = WbOutcome("get_manifest", plugin_id, None,
                          Get(manifests, plugin_id, NoManifest), FALSE)
    /\ UNCHANGED <<manifests, plugins, registry, instances>>
    /\ UNCHANGED <<overrides, tiers, chain, scope, nls, last, run>>

\* Mutant: the plugin map is never consulted.
Workbench_cached_never(plugin_id) == FALSE

\* `if plugin_id in self._plugins`.
Workbench_cached(plugin_id) == plugin_id \in DOMAIN plugins

\* Workbench.get_plugin.
GetPlugin(plugin_id, force_create) ==
    LET Out(plugin, warned) ==
            [WbOutcome("get_plugin", plugin_id, plugin, NoManifest, warned)
                EXCEPT !.force = force_create]
    IN
    /\ IF Workbench_cached(plugin_id)
       THEN /\ wlast' = Out(plugins[plugin_id], FALSE)
            /\ UNCHANGED <<plugins, instances>>
       ELSE IF plugin_id \notin DOMAIN manifests
       THEN /\ wlast' = Out(None, TRUE)
            /\ UNCHANGED <<plugins, instances>>
       ELSE IF ~force_create
       THEN /\ wlast' = Out(None, FALSE)
            /\ UNCHANGED <<plugins, instances>>
       ELSE IF ~Workbench_create_plugin(manifests[plugin_id])
       THEN /\ plugins' = Bind(plugins, plugin_id, None)
            /\ wlast' = Out(None, FALSE)
            /\ UNCHANGED instances
       ELSE /\ Len(instances) < MaxInst
            /\ plugins' = Bind(plugins, plugin_id, Len(instances) + 1)
            /\ instances' = Append(instances,
                                [started |-> 1, stopped |-> 0,
                                 workbench |-> "self",
                                 manifest |-> manifests[plugin_id]])
            /\ wlast' = Out(Len(instances) + 1, FALSE)
    /\ UNCHANGED <<manifests, registry>>
    /\ UNCHANGED <<overrides, tiers, chain, scope, nls, last, run>>

\* A workbench as constructed: no manifest, no plugin, an empty registry.
InitWorkbench ==
    /\ manifests = << >>
    /\ plugins = << >>
    /\ registry = [extension_points |-> {}, extensions |-> {}]
    /\ instances = << >>
    /\ wlast = NoWbOp

----------------------------------------------------------------------------
\* The same operations statement by statement: a call is a frame on the
\* stack, an attribute read may run code of its own (a property), and a
\* call made from inside an attribute read runs to its end before the
\* reading call goes on.

\* Calls an attribute read may nest before its property stops re-entering.
MaxDepth == 3

\* What getattr(node, name) does for the name the node exposes: return the
\* value, raise an error that is no AttributeError, or first look the name
\* up in (test it against) the object whose walk is reading it.
Kinds == {"plain", "raises", "gets", "tests"}

Listener(self) == IF self = 0 THEN scope.listener ELSE nls[self].listener
Owner(self) == IF self = 0 THEN scope.obj ELSE nls[self].obj

\* self._listener = listener (self._nls_listener = listener).
SetListener(self, listener) ==
    IF self = 0
    THEN /\ scope' = [scope EXCEPT !.listener = listener]
         /\ UNCHANGED nls
    ELSE /\ nls' = [nls EXCEPT ![self].listener = listener]
         /\ UNCHANGED scope

\* A call of `op` on object `self` at its first statement; `via` tells who
\* made it: the evaluation ("top"), __contains__ for its own lookup
\* ("test") or a property run by an attribute read ("getter").
Frame(op, self, key, via, entry) ==
    [op |-> op, self |-> self, key |-> key, via |-> via, entry |-> entry,
     pc |-> IF op = "getitem" THEN "tiers"
            ELSE IF op = "nl_getitem" THEN "walk"
            ELSE IF op = "nl_setitem" THEN "setwalk"
            ELSE IF op = "nl_call" THEN "check"
            ELSE "test",
     node |-> IF op \in {"nl_getitem", "nl_setitem", "nl_call"}
              THEN Owner(self) ELSE None,
     saved |-> NoListener, visited |-> << >>, arg |-> None,
     level |-> NoLevel, offset |-> 0]

\* The outcome of the call of frame f.
Done(f, r, truth, exit) ==
    [op |-> f.op, self |-> f.self, key |-> f.key, via |-> f.via,
     entry |-> f.entry, node |-> f.node, visited |-> f.visited,
     arg |-> f.arg, level |-> f.level, offset |-> f.offset,
     exc |-> r.exc, value |-> r.value, calls |-> r.calls,
     truth |-> truth, exit |-> exit]

NoRet ==
    [op |-> "", self |-> 0, key |-> NoKey, via |-> "", entry |-> NoListener,
     node |-> None, visited |-> << >>, arg |-> None, level |-> NoLevel,
     offset |-> 0, exc |-> "", value |-> None, calls |-> << >>,
     truth |-> FALSE, exit |-> ""]

Top == stack[Len(stack)]
SetTop(f) == [stack EXCEPT ![Len(stack)] = f]
Below == SubSeq(stack, 1, Len(stack) - 1)

\* The evaluation makes a call when none is in progress.
Enter(f) ==
    /\ stack = << >>
    /\ stack' = <<f>>
    /\ ret' = NoRet
    /\ UNCHANGED <<overrides, tiers, chain, scope, nls, last, wb, kind>>

\* The innermost call returns or raises.
Finish(f, r, truth, exit) ==
    /\ stack' = Below
    /\ ret' = Done(f, r, truth, exit)

CallGetItem(name) ==
    Enter(Frame("getitem", 0, Str(name), "top", Listener(0)))

CallContains(key) ==
    Enter(Frame("contains", 0, key, "top", Listener(0)))

CallNlGetItem(i, name) ==
    Enter(Frame("nl_getitem", i, Str(name), "top", Listener(i)))

CallNlContains(i, key) ==
    Enter(Frame("nl_contains", i, key, "top", Listener(i)))

CallNlSetItem(i, name, value) ==
    Enter([Frame("nl_setitem", i, Str(name), "top", Listener(i))
              EXCEPT !.arg = value])

CallNlCall(i, level) ==
    Enter([Frame("nl_call", i, NoKey, "top", Listener(i))
              EXCEPT !.level = level])

\* DynamicScope.__getitem__, the four mappings.
StepTiers ==
    /\ stack # << >>
    /\ Top.pc = "tiers"
    /\ LET name == Top.key.name
       IN  IF name \in DOMAIN overrides
           THEN Finish(Top, Ret(overrides[name], << >>), FALSE, "tier")
           ELSE IF name \in DOMAIN identifiers
           THEN Finish(Top, Ret(identifiers[name], << >>), FALSE, "tier")
           ELSE IF name \in DOMAIN f_globals
           THEN Finish(Top, Ret(f_globals[name], << >>), FALSE, "tier")
           ELSE IF name \in DOMAIN builtins
           THEN Finish(Top, Ret(builtins[name], << >>), FALSE, "tier")
           ELSE /\ stack' = SetTop([Top EXCEPT !.pc = "walk",
                                               !.node = scope.obj])
                /\ UNCHANGED ret
    /\ UNCHANGED <<overrides, tiers, chain, scope, nls, last, wb, kind>>

\* Mutant: the loop reads the same node again.
Walk_stay(node) == node

\* parent = parent.parent (target = target.parent).
Walk_next(node) == parent[node]

\* The call a property makes on the object whose walk is reading it.
Reenter(self, how, name) ==
    Frame(IF how = "gets"
          THEN (IF self = 0 THEN "getitem" ELSE "nl_getitem")
          ELSE (IF self = 0 THEN "contains" ELSE "nl_contains"),
          self, Str(name), "getter", Listener(self))

\* One turn of `while parent is not None` in __getitem__ of either class:
\* getattr(parent, name), and what its outcome leads to.
StepWalk ==
    /\ stack # << >>
    /\ Top.pc = "walk"
    /\ LET f == Top
           name == f.key.name
           node == f.node
           g == [f EXCEPT !.visited = Append(@, node)]
       IN  IF node = None
           THEN Finish(f, Raise("KeyError"), FALSE, "root")
           ELSE IF name \notin DOMAIN attrs[node]
           THEN /\ stack' = SetTop([g EXCEPT !.node = Walk_next(node)])
                /\ UNCHANGED ret
           ELSE IF kind[node] = "raises"
           THEN Finish(g, Raise("RuntimeError"), FALSE, "error")
           ELSE IF kind[node] \in {"gets", "tests"} /\ Len(stack) < MaxDepth
           THEN /\ stack' = Append(SetTop([g EXCEPT !.pc = "getattr"]),
                                   Reenter(f.self, kind[node], name))
                /\ UNCHANGED ret
           ELSE /\ stack' = SetTop([g EXCEPT !.pc = "notify"])
                /\ UNCHANGED ret
    /\ UNCHANGED <<overrides, tiers, chain, scope, nls, last, wb, kind>>

\* The property's own call has ended: getattr returns the value, or the
\* error of that call leaves getattr and, being no AttributeError, the
\* walk.
StepGetattr ==
    /\ stack # << >>
    /\ Top.pc = "getattr"
    /\ ret.op # ""
    /\ IF ret.exc = ""
       THEN /\ stack' = SetTop([Top EXCEPT !.pc = "notify"])
            /\ ret' = NoRet
       ELSE Finish(Top, Raise(ret.exc), FALSE, "error")
    /\ UNCHANGED <<overrides, tiers, chain, scope, nls, last, wb, kind>>

\* The else branch of the try: read the listener field, call dynamic_load
\* when it is not None, return the value.
StepNotify ==
    /\ stack # << >>
    /\ Top.pc = "notify"
    /\ LET value == attrs[Top.node][Top.key.name]
       IN  Finish(Top,
                  Ret(value, Notify(Listener(Top.self), Top.node,
                                    Top.key.name, value)),
                  FALSE, "hit")
    /\ UNCHANGED <<overrides, tiers, chain, scope, nls, last, wb, kind>>

\* __contains__ up to its call of self.__getitem__(name).
StepTest ==
    /\ stack # << >>
    /\ Top.pc = "test"
    /\ IF ~Top.key.isstr
       THEN /\ Finish(Top, Ret(None, << >>), FALSE, "nonstring")
            /\ UNCHANGED <<scope, nls>>
       ELSE /\ SetListener(Top.self, NoListener)
            /\ stack' = Append(
                  SetTop([Top EXCEPT !.pc = "lookup",
                                     !.saved = Listener(Top.self)]),
                  Frame(IF Top.self = 0 THEN "getitem" ELSE "nl_getitem",
                        Top.self, Top.key, "test", NoListener))
            /\ UNCHANGED ret
    /\ UNCHANGED <<overrides, tiers, chain, last, wb, kind>>

\* Mutant: a bare except.
Contains_except_any(exc) == exc # ""

\* `except KeyError`: the errors __contains__ turns into False.
Contains_except(exc) == exc = "KeyError"

\* Mutant: the listener is put back only when no error leaves the method.
Contains_restore_else(saved, current, exc) ==
    IF exc = "" \/ Contains_except(exc) THEN saved ELSE current

\* `finally: self._listener = listener`: the field after the try statement.
Contains_restore(saved, current, exc) == saved

\* __contains__ from the end of its lookup: except, else, finally, return.
StepRestore ==
    /\ stack # << >>
    /\ Top.pc = "lookup"
    /\ ret.op # ""
    /\ SetListener(Top.self,
                   Contains_restore(Top.saved, Listener(Top.self), ret.exc))
    /\ IF ret.exc = ""
       THEN Finish(Top, Ret(None, ret.calls), TRUE, "found")
       ELSE IF Contains_except(ret.exc)
       THEN Finish(Top, Ret(None, ret.calls), FALSE, "absent")
       ELSE Finish(Top, Raise(ret.exc), FALSE, "error")
    /\ UNCHANGED <<overrides, tiers, chain, last, wb, kind>>

\* One turn of the loop of Nonlocals.__setitem__: setattr(parent, name,
\* value) and return, or on AttributeError go to the parent.
StepSet ==
    /\ stack # << >>
    /\ Top.pc = "setwalk"
    /\ LET f == Top
           name == f.key.name
           node == f.node
           g == [f EXCEPT !.visited = Append(@, node)]
       IN  IF node = None
           THEN /\ Finish(f, Raise("KeyError"), FALSE, "root")
                /\ UNCHANGED attrs
           ELSE IF name \in settable[node]
           THEN /\ attrs' = [attrs EXCEPT ![node] = Bind(@, name, f.arg)]
                /\ Finish(g, Ret(None, << >>), FALSE, "write")
           ELSE /\ stack' = SetTop([g EXCEPT !.node = Walk_next(node)])
                /\ UNCHANGED <<ret, attrs>>
    /\ UNCHANGED <<overrides, tiers, parent, settable, scope, nls, last,
                   wb, kind>>

\* Nonlocals.__call__: the check of the level argument.
StepCheck ==
    /\ stack # << >>
    /\ Top.pc = "check"
    /\ IF ~Top.level.isint \/ Top.level.n < 0
       THEN Finish(Top, Raise("ValueError"), FALSE, "badlevel")
       ELSE /\ stack' = SetTop([Top EXCEPT !.pc = "hop"])
            /\ UNCHANGED ret
    /\ UNCHANGED <<overrides, tiers, chain, scope, nls, last, wb, kind>>

\* Nonlocals.__call__: one turn of `while target is not None and
\* offset != level`, or the statements after the loop.
StepHop ==
    /\ stack # << >>
    /\ Top.pc = "hop"
    /\ LET f == Top
       IN  IF f.node # None /\ f.offset # f.level.n
           THEN /\ stack' = SetTop([f EXCEPT !.node = Walk_next(f.node),
                                             !.offset = @ + 1,
                                             !.visited = Append(@, f.node)])
                /\ UNCHANGED ret
           ELSE IF f.offset # f.level.n
           THEN Finish(f, Raise("ValueError"), FALSE, "root")
           ELSE Finish(f, Ret(f.node, << >>), FALSE, "hops")
    /\ UNCHANGED <<overrides, tiers, chain, scope, nls, last, wb, kind>>

\* No call in progress, and every attribute a plain value.
InitIdle ==
    /\ stack = << >>
    /\ ret = NoRet
    /\ kind = [n \in Nodes |-> "plain"]

----------------------------------------------------------------------------
OneName(v) == {[n \in {m} |-> v] : m \in Names}

NoOp == Outcome("init", 0, NoKey, None, Ret(None, << >>), FALSE, 0)

Chain == [n \in Nodes |-> IF n < NumNodes THEN n + 1 ELSE None]

InitObjects ==
    /\ parent = Chain
    /\ attrs \in {f \in [Nodes -> UNION {OneName(NodeVal(n)) : n \in Nodes}] :
                    \A n \in Nodes : f[n] \in OneName(NodeVal(n))}
    /\ \E obj \in Nodes, listener \in Listeners :
          /\ scope = [obj |-> obj, listener |-> listener]
          /\ nls = [i \in {1} |-> [obj |-> obj, listener |-> listener]]
    /\ overrides = << >>
    /\ last = NoOp
    /\ InitWorkbench
    /\ InitIdle

\* The tiers of a scope whose mappings all bind "x".
FixedTiers ==
    /\ identifiers = [n \in {"x"} |-> TierVal.identifiers]
    /\ f_globals = [n \in {"x"} |-> TierVal.f_globals]
    /\ builtins = [n \in {"x"} |-> TierVal.builtins]

\* The evaluation of an expression: the resolver's operations and the reads
\* of the accessor built on the same owner, over every tier configuration.
Init ==
    /\ InitObjects
    /\ identifiers \in OneName(TierVal.identifiers)
    /\ f_globals \in OneName(TierVal.f_globals)
    /\ builtins \in OneName(TierVal.builtins)
    /\ settable = [n \in Nodes |-> Names]

Next ==
    \/ \E name \in Names : GetItem(name)
    \/ \E name \in Names, value \in WriteVals : SetItem(name, value)
    \/ \E key \in Keys : Contains(key)
    \/ \E name \in Names : NlGetItem(1, name)
    \/ \E name \in Names : NlGetAttr(1, name)
    \/ \E key \in Keys : NlContains(1, key)

Spec == Init /\ [][Next]_vars

\* The accessor's reads and writes: every node accepts writes to exactly
\* one of the two names, independently of the name it exposes.
InitNls ==
    /\ InitObjects
    /\ FixedTiers
    /\ settable \in [Nodes -> {{m} : m \in Names}]

NextNls ==
    \/ \E name \in Names : NlGetItem(1, name)
    \/ \E key \in Keys : NlContains(1, key)
    \/ \E name \in Names, value \in WriteVals : NlSetItem(1, name, value)
    \/ \E name \in Names, value \in WriteVals : NlSetAttr(1, name, value)

SpecNls == InitNls /\ [][NextNls]_vars

\* Level offsets: __call__ on the original accessor and on the accessors it
\* returned, and get through each of them, over the same chains.
NextLevel ==
    \/ \E i \in DOMAIN nls, level \in LevelArgs : NlCall(i, level)
    \/ \E i \in DOMAIN nls, name \in Names : NlGetItem(i, name)

SpecLevel == InitNls /\ [][NextLevel]_vars

\* The plugin lifecycle of a workbench; no scope operation runs.
InitWB ==
    /\ InitWorkbench
    /\ FixedTiers
    /\ parent = Chain
    /\ attrs = [n \in Nodes |-> [m \in {"x"} |-> NodeVal(n)]]
    /\ settable = [n \in Nodes |-> Names]
    /\ scope = [obj |-> 1, listener |-> NoListener]
    /\ nls = [i \in {1} |-> [obj |-> 1, listener |-> NoListener]]
    /\ overrides = << >>
    /\ last = NoOp
    /\ InitIdle

NextWB ==
    \/ \E manifest \in Manifests : Register(manifest)
    \/ \E plugin_id \in PluginIds : Unregister(plugin_id)
    \/ \E plugin_id \in PluginIds : GetManifest(plugin_id)
    \/ \E plugin_id \in PluginIds, force_create \in BOOLEAN :
          GetPlugin(plugin_id, force_create)

SpecWB == InitWB /\ [][NextWB]_vars

\* At most one node's attribute does more than hold a value.
KindMaps(kinds) ==
    {f \in [Nodes -> kinds] :
        \A m, n \in Nodes : (f[m] # "plain" /\ f[n] # "plain") => m = n}

\* Objects built with a listener over every chain of one-name nodes.
InitStepObjects ==
    /\ parent = Chain
    /\ attrs \in {f \in [Nodes -> UNION {OneName(NodeVal(n)) : n \in Nodes}] :
                    \A n \in Nodes : f[n] \in OneName(NodeVal(n))}
    /\ \E obj \in Nodes :
          /\ scope = [obj |-> obj, listener |-> "listener"]
          /\ nls = [i \in {1} |-> [obj |-> obj, listener |-> "listener"]]
    /\ overrides = << >>
    /\ last = NoOp
    /\ InitWorkbench
    /\ FixedTiers
    /\ stack = << >>
    /\ ret = NoRet

\* Reads and membership tests over attributes that may raise or re-enter.
InitRun ==
    /\ InitStepObjects
    /\ settable = [n \in Nodes |-> Names]
    /\ kind \in KindMaps(Kinds)

NextRun ==
    \/ \E name \in Names : CallGetItem(name)
    \/ \E key \in Keys : CallContains(key)
    \/ \E name \in Names : CallNlGetItem(1, name)
    \/ \E key \in Keys : CallNlContains(1, key)
    \/ StepTiers
    \/ StepWalk
    \/ StepGetattr
    \/ StepNotify
    \/ StepTest
    \/ StepRestore

SpecRun == InitRun /\ [][NextRun]_vars

\* Every operation that walks the chain, over attributes that return or
\* re-enter; a call in progress takes its next step. Every write stores
\* the same value: which value it is has no part in the walk.
InitWalk ==
    /\ InitStepObjects
    /\ settable \in [Nodes -> {{m} : m \in Names}]
    /\ kind \in KindMaps(Kinds \ {"raises"})

Running ==
    \/ StepTiers
    \/ StepWalk
    \/ StepGetattr
    \/ StepNotify
    \/ StepTest
    \/ StepRestore
    \/ StepSet
    \/ StepCheck
    \/ StepHop

NextWalk ==
    \/ \E name \in Names : CallGetItem(name)
    \/ \E key \in Keys : CallContains(key)
    \/ \E name \in Names : CallNlGetItem(1, name)
    \/ \E key \in Keys : CallNlContains(1, key)
    \/ \E name \in Names : CallNlSetItem(1, name, 1)
    \/ \E level \in LevelArgs : CallNlCall(1, level)
    \/ Running

SpecWalk == InitWalk /\ [][NextWalk]_vars /\ WF_vars(Running)

----------------------------------------------------------------------------
\* Vocabulary of the properties.

\* The owner chain from a node up to the root, nearest first.
RECURSIVE ChainFrom(_)
ChainFrom(node) ==
    IF node = None THEN << >> ELSE <<node>> \o ChainFrom(parent[node])

\* The sources a resolve consults, in the order the precedence rule gives:
\* overrides, identifiers, globals, builtins, then the owner chain.
Sources ==
    <<overrides, identifiers, f_globals, builtins>>
        \o [i \in 1..Len(ChainFrom(scope.obj)) |-> attrs[ChainFrom(scope.obj)[i]]]

Binds(src, name) == name \in DOMAIN src

InTiers(name) == \E i \in 1..4 : Binds(Sources[i], name)

\* Position in a chain of the nearest node exposing the name (0: no node).
NearestIdx(c, name) ==
    LET hits == {i \in 1..Len(c) : Binds(attrs[c[i]], name)}
    IN  IF hits = {} THEN 0
        ELSE CHOOSE i \in hits : \A j \in hits : i <= j

Nearest(node, name) ==
    LET c == ChainFrom(node)
    IN  IF NearestIdx(c, name) = 0 THEN None ELSE c[NearestIdx(c, name)]

\* C1: resolve(name) returns the value of the first source binding the name
\* in the order overrides, identifiers, globals, builtins, owner chain: no
\* later source's binding is returned while an earlier source binds it.
C1_Precedence ==
    last.op = "getitem" =>
        \A i \in 1..Len(Sources) :
            ( /\ Binds(Sources[i], last.key.name)
              /\ \A j \in 1..(i - 1) : ~Binds(Sources[j], last.key.name) )
            => /\ last.exc = ""
               /\ last.value = Sources[i][last.key.name]

\* A resolve of a name bound in identifiers, globals, builtins and on the
\* owner at once returned the identifiers value; the override tier is empty.
C1_Witness ==
    /\ last.op = "getitem"
    /\ ~Binds(overrides, last.key.name)
    /\ \A i \in 2..5 : Binds(Sources[i], last.key.name)
    /\ last.value = TierVal.identifiers

\* C2: a resolve satisfied by overrides, identifiers, globals or builtins
\* calls the listener zero times; one satisfied only by the hierarchy walk
\* calls the scope's listener exactly once, with the node where the
\* attribute was found, the name and the returned value.
C2_ObserverDiscipline ==
    last.op = "getitem" =>
        /\ InTiers(last.key.name) => last.calls = << >>
        /\ ( /\ ~InTiers(last.key.name)
             /\ last.exc = ""
             /\ scope.listener # NoListener )
           => last.calls = << <<Nearest(scope.obj, last.key.name),
                                last.key.name, last.value>> >>

\* A resolve found its name on the owner's parent only and notified.
C2_Witness ==
    /\ last.op = "getitem"
    /\ ~InTiers(last.key.name)
    /\ scope.obj = 1
    /\ Nearest(scope.obj, last.key.name) = 2
    /\ Len(last.calls) = 1

\* C3: contains(name), on a resolver and on an accessor, never calls the
\* listener, also when the name is found by the hierarchy walk.
C3_ContainsSilent ==
    last.op \in {"contains", "nl_contains"} => last.calls = << >>

\* A contains found its name by the walk, on an object that has a listener.
C3_Witness ==
    /\ last.op \in {"contains", "nl_contains"}
    /\ last.truth
    /\ scope.listener # NoListener
    /\ ~InTiers(last.key.name)
    /\ Nearest(scope.obj, last.key.name) # None

\* C4: the hierarchy walk of resolve and of accessor get returns the value
\* of the nearest node of the chain exposing the name, never a farther
\* ancestor's, and notifies the listener with that nearest node.
C4_NearestNode ==
    /\ ( /\ last.op = "getitem"
         /\ ~InTiers(last.key.name)
         /\ Nearest(scope.obj, last.key.name) # None )
       => /\ last.exc = ""
          /\ last.value = attrs[Nearest(scope.obj, last.key.name)][last.key.name]
          /\ \A k \in 1..Len(last.calls) :
                last.calls[k][1] = Nearest(scope.obj, last.key.name)
    /\ ( /\ last.op = "nl_getitem"
         /\ Nearest(nls[last.self].obj, last.key.name) # None )
       => /\ last.exc = ""
          /\ last.value =
                attrs[Nearest(nls[last.self].obj, last.key.name)][last.key.name]
          /\ \A k \in 1..Len(last.calls) :
                last.calls[k][1] = Nearest(nls[last.self].obj, last.key.name)

\* A walk from node 1 met the name on node 1 and on node 2 and returned
\* node 1's value, notifying with node 1.
C4_Witness ==
    /\ last.op \in {"getitem", "nl_getitem"}
    /\ scope.obj = 1
    /\ ~InTiers(last.key.name)
    /\ Binds(attrs[1], last.key.name)
    /\ Binds(attrs[2], last.key.name)
    /\ last.value = NodeVal(1)
    /\ last.calls = << <<1, last.key.name, NodeVal(1)>> >>

\* C5: after assign(name, v) the resolve of name returns v without calling
\* the listener, whatever the other tiers and the owner chain bind, and
\* assign raises nothing.
C5_AssignThenResolve ==
    last.op = "setitem" =>
        /\ last.exc = ""
        /\ DynamicScope_getitem(scope, last.key.name) = Ret(last.arg, << >>)

\* An assign replaced an earlier override of a name that identifiers, globals,
\* builtins and the owner bind as well.
C5_Witness ==
    /\ last.op = "setitem"
    /\ last.arg = 2
    /\ \A i \in 2..5 : Binds(Sources[i], last.key.name)
    /\ DynamicScope_getitem(scope, last.key.name).value = 2

\* The node `n` parent hops above a node; None once the chain has ended.
RECURSIVE Up(_, _)
Up(node, n) ==
    IF node = None \/ n = 0 THEN node ELSE Up(parent[node], n - 1)

\* Whether n hops from the anchor of accessor `i` lead to an owner node.
Reaches(i, n) == n >= 0 /\ Up(nls[i].obj, n) \in Nodes

\* C6: at_level(n) fails with InvalidLevel for every negative n and every n
\* for which the chain above the anchor ends before n hops lead to an owner
\* node; no accessor is returned then.
C6_InvalidLevel ==
    ( /\ last.op = "nl_call"
      /\ last.level.isint
      /\ ~Reaches(last.self, last.level.n) )
    => /\ last.exc = "ValueError"
       /\ last.created = 0

\* Every live accessor is anchored at an owner node, and the one the last
\* at_level returned sits level hops above the anchor of the accessor it was
\* called on, with that accessor's listener.
C7_Anchored ==
    /\ \A i \in DOMAIN nls : nls[i].obj \in Nodes
    /\ (last.op = "nl_call" /\ last.exc = "")
       => /\ nls[last.created].obj = Up(nls[last.self].obj, last.level.n)
          /\ nls[last.created].listener = nls[last.self].listener

\* A step of at_level leaves the accessor it is called on and the owner
\* chain unchanged.
C7_CallFrame ==
    (last'.op = "nl_call" /\ last' # last)
    => /\ nls'[last'.self] = nls[last'.self]
       /\ UNCHANGED chain

\* C7: every accessor at_level returns, also through chained calls, is
\* anchored at an owner node, the one exactly n hops above the anchor of the
\* accessor it was called on, and has that accessor's listener; the call
\* leaves that accessor and the owner chain as they were.
C7_AtLevel == []C7_Anchored /\ [][C7_CallFrame]_vars

\* C8: at_level(0) returns a new object, distinct from the accessor it was
\* called on, with the same anchor and listener, so that every get, set and
\* contains through it has the outcome, the notifications and the effect on
\* the owner chain it has through the original.
C8_LevelZero ==
    (last.op = "nl_call" /\ last.level = [isint |-> TRUE, n |-> 0])
    => /\ last.exc = ""
       /\ last.created \in DOMAIN nls
       /\ last.created # last.self
       /\ nls[last.created].obj = nls[last.self].obj
       /\ nls[last.created].listener = nls[last.self].listener
       /\ \A name \in Names :
             /\ Nonlocals_getitem(nls[last.created], name)
                    = Nonlocals_getitem(nls[last.self], name)
             /\ Nonlocals_contains(nls[last.created], Str(name)).res
                    = Nonlocals_contains(nls[last.self], Str(name)).res
             /\ Nonlocals_contains(nls[last.created], Str(name)).calls
                    = Nonlocals_contains(nls[last.self], Str(name)).calls
             /\ \A value \in WriteVals :
                   Nonlocals_setitem(nls[last.created], name, value)
                       = Nonlocals_setitem(nls[last.self], name, value)

\* at_level(0) on an accessor that at_level itself returned, anchored at an
\* owner with a listener, whose get finds a name and notifies.
C8_Witness ==
    /\ last.op = "nl_call"
    /\ last.level = [isint |-> TRUE, n |-> 0]
    /\ last.self # 1
    /\ nls[last.self].obj \in Nodes
    /\ \E name \in Names :
          Len(Nonlocals_getitem(nls[last.created], name).calls) = 1

\* The nearest node of the chain from `node` accepting a write to the name
\* (None: every node rejects it).
Acceptor(node, name) ==
    LET c == ChainFrom(node)
        ok == {i \in 1..Len(c) : name \in settable[c[i]]}
    IN  IF ok = {} THEN None
        ELSE c[CHOOSE i \in ok : \A j \in ok : i <= j]

IsSet(op) == op \in {"nl_setitem", "nl_setattr"}

\* The exception a failed set surfaces as NameNotFound: KeyError from
\* __setitem__, AttributeError from the attribute form.
NameNotFound(op) == IF op = "nl_setattr" THEN "AttributeError" ELSE "KeyError"

\* Every attribute of every node other than `name` on `node` is as before.
OnlyChanged(node, name) ==
    \A n \in Nodes, m \in Names :
        (n # node \/ m # name)
        => /\ Binds(attrs'[n], m) <=> Binds(attrs[n], m)
           /\ Binds(attrs[n], m) => attrs'[n][m] = attrs[n][m]

\* C9: set(name, v) stops at the first node, from the anchor upwards, that
\* accepts the write: afterwards that node holds v for name, no nearer and
\* no farther node was modified, and the listener was not called.
C9_Step ==
    ( /\ IsSet(last'.op)
      /\ Acceptor(nls[last'.self].obj, last'.key.name) # None )
    => /\ last'.exc = ""
       /\ attrs'[Acceptor(nls[last'.self].obj, last'.key.name)][last'.key.name]
              = last'.arg
       /\ OnlyChanged(Acceptor(nls[last'.self].obj, last'.key.name),
                      last'.key.name)
       /\ last'.calls = << >>

C9_SetFirstAcceptor == [][C9_Step]_vars

\* A set from node 1, which rejects the name, left the value on node 2.
C9_Witness ==
    /\ IsSet(last.op)
    /\ nls[last.self].obj = 1
    /\ last.key.name \notin settable[1]
    /\ last.key.name \in settable[2]
    /\ Binds(attrs[2], last.key.name)
    /\ attrs[2][last.key.name] = last.arg
    /\ last.exc = ""

\* C10: set(name, v) fails with NameNotFound exactly when every node from
\* the anchor to the root rejects the write; then no attribute of any node
\* has changed and the listener was not called.
C10_Step ==
    IsSet(last'.op)
    => /\ last'.exc # ""
          <=> Acceptor(nls[last'.self].obj, last'.key.name) = None
       /\ last'.exc # ""
          => /\ last'.exc = NameNotFound(last'.op)
             /\ attrs' = attrs
             /\ last'.calls = << >>

C10_SetNameNotFound == [][C10_Step]_vars

\* A set failed on a chain of two nodes that both reject the name.
C10_Witness ==
    /\ IsSet(last.op)
    /\ nls[last.self].obj = 1
    /\ last.key.name \notin settable[1] \cup settable[2]
    /\ last.exc = NameNotFound(last.op)

IsGet(op) == op \in {"nl_getitem", "nl_getattr"}

\* C11: accessor get(name) consults the owner chain from its anchor and
\* nothing else: it returns the attribute of the nearest node exposing the
\* name and calls the listener once with (node, name, value), whatever
\* overrides, identifiers, globals and builtins bind; when no node from the
\* anchor to the root exposes the name it fails with NameNotFound and the
\* listener is not called.
C11_GetChainOnly ==
    IsGet(last.op) =>
        LET node == Nearest(nls[last.self].obj, last.key.name)
        IN  /\ node # None
               => /\ last.exc = ""
                  /\ last.value = attrs[node][last.key.name]
                  /\ last.calls =
                        IF nls[last.self].listener = NoListener THEN << >>
                        ELSE << <<node, last.key.name, last.value>> >>
            /\ node = None
               => /\ last.exc = IF last.op = "nl_getattr"
                                THEN "AttributeError" ELSE "KeyError"
                  /\ last.value = None
                  /\ last.calls = << >>

\* A get failed for a name that overrides, identifiers, globals and builtins
\* all bind and no node of the chain exposes.
C11_Witness ==
    /\ IsGet(last.op)
    /\ \A i \in 1..4 : Binds(Sources[i], last.key.name)
    /\ nls[last.self].obj = 1
    /\ Nearest(1, last.key.name) = None
    /\ last.exc # ""

\* C12: resolve(name) fails with NameNotFound exactly when none of
\* overrides, identifiers, globals, builtins and no node of the chain from
\* the owner to the root binds the name; the failure calls no listener and
\* puts no default value in the place of the missing one.
C12_ResolveNameNotFound ==
    last.op = "getitem" =>
        /\ last.exc = "KeyError"
           <=> \A i \in 1..Len(Sources) : ~Binds(Sources[i], last.key.name)
        /\ last.exc \in {"", "KeyError"}
        /\ last.exc = "KeyError" => (last.value = None /\ last.calls = << >>)

\* A resolve from node 1 failed: two nodes were probed and neither exposes
\* the name, nor does a tier bind it.
C12_Witness ==
    /\ last.op = "getitem"
    /\ scope.obj = 1
    /\ Len(Sources) = 4 + NumNodes
    /\ \A i \in 1..Len(Sources) : ~Binds(Sources[i], last.key.name)
    /\ last.exc = "KeyError"

\* C13: contains(key) on a resolver (on an accessor) is true exactly when
\* the key is a string and resolve (get) of it succeeds in the same state;
\* for a name bound nowhere and for a key that is no string it returns
\* false, raises nothing, and a key that is no string causes no lookup.
C13_ContainsIffResolves ==
    /\ last.op = "contains"
       => /\ last.exc = ""
          /\ last.truth <=> ( /\ last.key.isstr
                              /\ DynamicScope_getitem(scope, last.key.name).exc = "" )
    /\ last.op = "nl_contains"
       => /\ last.exc = ""
          /\ last.truth <=> ( /\ last.key.isstr
                              /\ Nonlocals_getitem(nls[last.self], last.key.name).exc = "" )

\* A contains returned false for a key that is no string although a lookup
\* of it would have found a binding.
C13_Witness ==
    /\ last.op \in {"contains", "nl_contains"}
    /\ ~last.key.isstr
    /\ ~last.truth
    /\ Nonlocals_getitem(nls[1], last.key.name).exc = ""
    /\ DynamicScope_getitem(scope, last.key.name).exc = ""

\* A step changes overrides at most in the entry of the assigned name.
C15_Step ==
    /\ UNCHANGED <<identifiers, f_globals, builtins, attrs, parent>>
    /\ overrides' # overrides
       => /\ last'.op = "setitem"
          /\ \A n \in Names \ {last'.key.name} :
                /\ Binds(overrides', n) <=> Binds(overrides, n)
                /\ Binds(overrides, n) => overrides'[n] = overrides[n]

\* C15: over any sequence of resolve, assign and contains calls on a
\* resolver, identifiers, globals, builtins, every owner's attributes and
\* every parent link stay as they are; overrides changes only in assign, and
\* only in the entry of the assigned name.
C15_ResolverFrame == [][C15_Step]_vars

\* An assign wrote one name while the other name kept its earlier override.
C15_Witness ==
    /\ last.op = "setitem"
    /\ DOMAIN overrides = Names
    /\ \E n \in Names \ {last.key.name} : overrides[n] # last.arg

\* C16: register of a manifest whose plugin id is registered already
\* ignores the duplicate: the manifest stored for the id stays the first
\* one, and none of the duplicate's extension points or extensions is added
\* to the registry.
C16_Step ==
    (wlast'.op = "register" /\ wlast'.id \in DOMAIN manifests)
        => /\ manifests' = manifests
           /\ registry' = registry

C16_DuplicateIgnored == [][C16_Step]_vars

\* The plugin registered under an id is active: get_plugin built and
\* started a Plugin object for it.
Active(plugin_id) ==
    /\ plugin_id \in DOMAIN plugins
    /\ plugins[plugin_id] # None

C17_Step ==
    (wlast'.op = "unregister" /\ wlast' # wlast)
        => IF wlast'.id \in DOMAIN manifests
           THEN LET m == manifests[wlast'.id]
                IN  /\ manifests' = Pop(manifests, wlast'.id)
                    /\ plugins' = Pop(plugins, wlast'.id)
                    /\ registry'.extensions
                          = registry.extensions \ extensions(m)
                    /\ registry'.extension_points
                          = registry.extension_points \ extension_points(m)
                    /\ Len(instances') = Len(instances)
                    /\ \A k \in 1..Len(instances) :
                          IF Active(wlast'.id) /\ plugins[wlast'.id] = k
                          THEN /\ instances'[k].stopped
                                     = instances[k].stopped + 1
                               /\ instances'[k].started = instances[k].started
                               /\ instances'[k].workbench = "None"
                               /\ instances'[k].manifest = NoManifest
                          ELSE instances'[k] = instances[k]
                    /\ Get(manifests', wlast'.id, NoManifest) = NoManifest
           ELSE UNCHANGED <<manifests, plugins, registry, instances>>

\* C17: unregister(plugin_id) of a registered plugin removes its manifest
\* and its plugin entry, removes the manifest's extensions and extension
\* points from the registry, stops the plugin exactly when it was activated
\* and clears its workbench and manifest references; get_manifest of the id
\* then gives None. unregister of an id that is not registered changes
\* nothing and stops nothing.
C17_Unregister == [][C17_Step]_vars

\* An unregister stopped an active plugin while the other id stayed
\* registered with its own active plugin.
C17_Witness ==
    /\ wlast.op = "unregister"
    /\ ~wlast.warned
    /\ wlast.plugin # None
    /\ instances[wlast.plugin].stopped = 1
    /\ instances[wlast.plugin].workbench = "None"
    /\ \E other \in PluginIds \ {wlast.id} :
          /\ Active(other)
          /\ instances[plugins[other]].stopped = 0

IsContains(op) == op \in {"contains", "nl_contains"}

\* The lookup of a membership test has ended and __contains__ is the
\* innermost call: its next step is its last.
Returning ==
    /\ stack # << >>
    /\ Top.pc = "lookup"
    /\ ret.op # ""

\* C14: contains(name) treats any failure of the underlying resolution as
\* false: also when an owner's attribute read fails with an error other
\* than AttributeError or NameNotFound, contains returns false and raises
\* nothing.
C14_AnyFailureStep ==
    (Returning /\ ret.exc # "" /\ Len(stack') < Len(stack))
        => /\ ret'.exc = ""
           /\ ~ret'.truth

C14_Step ==
    (Returning /\ Len(stack') < Len(stack))
        => /\ IsContains(ret'.op)
           /\ ret.exc = "" => (ret'.exc = "" /\ ret'.truth)
           /\ ret.exc = "KeyError" => (ret'.exc = "" /\ ~ret'.truth)
           /\ ret.exc \notin {"", "KeyError"}
              => (ret'.exc = ret.exc /\ ~ret'.truth)
           /\ Top.saved = IF Top.self = 0 THEN scope'.listener
                          ELSE nls'[Top.self].listener

C18_ObserverRestored ==
    /\ IsContains(ret.op) => Listener(ret.self) = ret.entry
    /\ stack = << >> => /\ scope.listener = "listener"
                        /\ nls[1].listener = "listener"
    /\ (ret.via = "top" /\ ret.exit = "hit")
          => ret.calls = << <<ret.node, ret.key.name, ret.value>> >>

\* A membership test on the accessor returned true after the attribute
\* read of its lookup had run a membership test of its own on the accessor.
C18_Witness ==
    /\ ret.op = "nl_contains"
    /\ ret.via = "top"
    /\ ret.truth
    /\ Nearest(nls[1].obj, ret.key.name) # None
    /\ kind[Nearest(nls[1].obj, ret.key.name)] = "tests"
    /\ nls[1].listener = "listener"

\* The call that just returned was made by a property while a membership
\* test of an object with an observer was running on the same object.
ReenteredInTest ==
    /\ ret.op \in {"getitem", "nl_getitem"}
    /\ ret.via = "getter"
    /\ \E k \in 1..Len(stack) :
          /\ IsContains(stack[k].op)
          /\ stack[k].self = ret.self
          /\ stack[k].pc = "lookup"
          /\ stack[k].saved # NoListener

\* C19: a resolve (or accessor get) re-entered from an owner's attribute
\* read while a contains call on the same object is in progress, and
\* finding its name by the walk, notifies the observer exactly once.
C19_ReentrantNotifies ==
    (ReenteredInTest /\ ret.exit = "hit")
        => ret.calls = << <<ret.node, ret.key.name, ret.value>> >>

NoDup(seq) ==
    \A i, j \in 1..Len(seq) : i # j => seq[i] # seq[j]

\* How a call that entered a chain loop left it.
C20_Exit ==
    (/\ ret.op \in {"getitem", "nl_getitem", "nl_setitem", "nl_call"}
     /\ ret.exit \notin {"tier", "badlevel"})
        => \/ /\ ret.exit = "hit"
              /\ ret.exc = ""
              /\ ret.node # None
              /\ ret.key.name \in DOMAIN attrs[ret.node]
           \/ /\ ret.exit = "write"
              /\ ret.exc = ""
              /\ ret.node # None
              /\ ret.key.name \in settable[ret.node]
              /\ attrs[ret.node][ret.key.name] = ret.arg
           \/ /\ ret.exit = "hops"
              /\ ret.exc = ""
              /\ ret.offset = ret.level.n
           \/ /\ ret.exit = "root"
              /\ ret.exc \in {"KeyError", "ValueError"}
              /\ ret.node = None

C20_Once ==
    /\ \A k \in 1..Len(stack) :
          /\ NoDup(stack[k].visited)
          /\ Len(stack[k].visited) <= NumNodes
    /\ NoDup(ret.visited)

C21_Counts ==
    \A k \in 1..Len(instances) :
        /\ instances[k].started <= 1
        /\ instances[k].stopped <= instances[k].started

C21_Step ==
    /\ Len(instances') >= Len(instances)
    /\ \A k \in 1..Len(instances) :
          /\ instances'[k].started = instances[k].started
          /\ instances'[k].stopped >= instances[k].stopped
    /\ (wlast'.op = "get_plugin" /\ wlast'.id \in DOMAIN plugins)
          => /\ wlast'.plugin = plugins[wlast'.id]
             /\ UNCHANGED <<plugins, instances>>
    /\ (wlast'.op = "get_plugin" /\ ~wlast'.force)
          => UNCHANGED <<plugins, instances>>

\* C21: over any sequence of register, get_plugin and unregister calls each
\* plugin instance is started at most once, stopped at most once and only
\* after it was started; repeated get_plugin(id) calls between a register
\* and the matching unregister return the same instance without starting
\* it again, and get_plugin with force_create=False never creates or
\* starts a plugin.
C21_Lifecycle == []C21_Counts /\ [][C21_Step]_vars

\* get_plugin without force_create returned the active plugin of its id,
\* built by an earlier call, after another plugin had been stopped.
C21_Witness ==
    /\ wlast.op = "get_plugin"
    /\ ~wlast.force
    /\ wlast.plugin # None
    /\ instances[wlast.plugin].started = 1
    /\ instances[wlast.plugin].stopped = 0
    /\ \E k \in 1..Len(instances) : instances[k].stopped = 1

\* C22: after every completed Workbench operation every id in the plugin
\* map has a manifest in the manifest map, and every active (non-None)
\* plugin in the plugin map has its workbench set to this workbench and its
\* manifest set to the manifest registered under its id.
C22_PluginMap ==
    /\ DOMAIN plugins \subseteq DOMAIN manifests
    /\ \A plugin_id \in DOMAIN plugins :
          Active(plugin_id)
             => /\ plugins[plugin_id] \in 1..Len(instances)
                /\ instances[plugins[plugin_id]].workbench = "self"
                /\ instances[plugins[plugin_id]].manifest
                      = manifests[plugin_id]

\* The last call registered a duplicate of an id whose plugin is active,
\* built after an earlier plugin had been stopped and released.
C22_Witness ==
    /\ wlast.op = "register"
    /\ wlast.warned
    /\ wlast.manifest # manifests[wlast.id]
    /\ Active(wlast.id)
    /\ \E k \in 1..Len(instances) :
          /\ instances[k].stopped = 1
          /\ instances[k].workbench = "None"

====
